---- MODULE Spec2Model ----
(***************************************************************************)
(* A model of src/src/path.ts: the SVG path tokenizer and parser           *)
(* (ParsedPath), the path view (RoughPath) and the arc converter           *)
(* (RoughArcConverter).                                                    *)
(*                                                                         *)
(* Strings are sequences of one-character strings.  A number is kept as an *)
(* exact decimal [m |-> mantissa, e |-> exponent] (value m * 10^e) in      *)
(* normal form: m is not a multiple of 10, and zero is [m |-> 0, e |-> 0]. *)
(* The normal form stands for the canonical text `${parseFloat(text)}` of  *)
(* a NUMBER token: two literals have the same text iff they have the same  *)
(* normal form (within the double precision range, which the bounded       *)
(* inputs never leave).                                                    *)
(***************************************************************************)
EXTENDS Integers, Sequences, FiniteSets, TLC

(***************************************************************************)
(* Bounds of the model.                                                    *)
(***************************************************************************)
\* longest input enumerated character by character
MaxLen == 4
\* most commands in an input built from the subpath commands
MaxCmds == 4
\* the segment list is followed up to this length
MaxSegs == 20
\* diagnostics (console.error calls) are counted up to this number
MaxErrors == 2
\* arc endpoints have integer coordinates in -MaxCoord..MaxCoord
MaxCoord == 1
\* arc radii are integers in -1..MaxRadius
MaxRadius == 2
\* getNextSegment is followed up to this number of calls
MaxCalls == 6
\* calls of setPosition and of the first setter that are followed
MaxPenCalls == 3
\* longest subpath given to a PathFitter
MaxPoints == 8
\* fit's simplification runs over 0/4 .. MaxQuarters/4
MaxQuarters == 5
\* longest point list given to reduce on its own
MaxReduce == 4

(***************************************************************************)
(* Characters and decimal numbers.                                         *)
(***************************************************************************)
Digits == {"0", "1", "2", "3", "4", "5", "6", "7", "8", "9"}

DigitVal(c) ==
  CASE c = "0" -> 0 [] c = "1" -> 1 [] c = "2" -> 2 [] c = "3" -> 3
    [] c = "4" -> 4 [] c = "5" -> 5 [] c = "6" -> 6 [] c = "7" -> 7
    [] c = "8" -> 8 [] c = "9" -> 9

RECURSIVE Pow10(_)
Pow10(k) == IF k <= 0 THEN 1 ELSE 10 * Pow10(k - 1)

RECURSIVE Norm(_, _)
Norm(m, e) ==
  IF m = 0 THEN [m |-> 0, e |-> 0]
  ELSE IF m % 10 = 0 THEN Norm(m \div 10, e + 1)
  ELSE [m |-> m, e |-> e]

Num(i) == Norm(i, 0)

Zero == Num(0)

Min(a, b) == IF a < b THEN a ELSE b

\* a + b on decimals (exact; the rounding of a double addition is not modelled)
Add(a, b) ==
  LET e == Min(a.e, b.e)
  IN  Norm(a.m * Pow10(a.e - e) + b.m * Pow10(b.e - e), e)

(***************************************************************************)
(* ParsedPath.tokenize                                                     *)
(***************************************************************************)
COMMAND == "COMMAND"
NUMBER == "NUMBER"
END_OF_D == "END_OF_D"

Separators == {" ", "\t", "\r", "\n", ","}

CommandLetters ==
  {"a", "A", "c", "C", "h", "H", "l", "L", "m", "M",
   "q", "Q", "s", "S", "t", "T", "v", "V", "z", "Z"}

Drop(s, n) == SubSeq(s, n + 1, Len(s))

\* length of the longest prefix of s made of characters of set
RECURSIVE RunLen(_, _)
RunLen(s, set) ==
  IF s # <<>> /\ Head(s) \in set THEN 1 + RunLen(Tail(s), set) ELSE 0

\* /^([ \t\r\n,]+)/ : length of the match, 0 when there is none
SepMatch(s) == RunLen(s, Separators)

\* /^([aAcChHlLmMqQsStTvVzZ])/
CommandMatch(s) == IF s # <<>> /\ Head(s) \in CommandLetters THEN 1 ELSE 0

SignLen(s) == IF s # <<>> /\ Head(s) \in {"-", "+"} THEN 1 ELSE 0

\* ([-+]?[0-9]+(\.[0-9]*)?|[-+]?\.[0-9]+) : length of the match, 0 for none
MantissaMatch(s) ==
  LET sg == SignLen(s)
      r == Drop(s, sg)
      int == RunLen(r, Digits)
      r2 == Drop(r, int)
  IN  IF int > 0
        THEN IF r2 # <<>> /\ Head(r2) = "."
               THEN sg + int + 1 + RunLen(Tail(r2), Digits)
               ELSE sg + int
      ELSE IF r # <<>> /\ Head(r) = "." /\ RunLen(Tail(r), Digits) > 0
        THEN sg + 1 + RunLen(Tail(r), Digits)
      ELSE 0

\* ([eE][-+]?[0-9]+)? : length of the match (0 when the group is absent)
ExponentMatch(s) ==
  IF s # <<>> /\ Head(s) \in {"e", "E"}
    THEN LET r == Tail(s)
             sg == SignLen(r)
             dg == RunLen(Drop(r, sg), Digits)
         IN  IF dg > 0 THEN 1 + sg + dg ELSE 0
    ELSE 0

\* the numeric literal of line 81: length of the match, 0 when there is none
NumberMatch(s) ==
  LET mlen == MantissaMatch(s)
  IN  IF mlen = 0 THEN 0 ELSE mlen + ExponentMatch(Drop(s, mlen))

RECURSIVE DigitsValue(_, _)
DigitsValue(s, acc) ==
  IF s = <<>> THEN acc ELSE DigitsValue(Tail(s), 10 * acc + DigitVal(Head(s)))

\* parseFloat of a literal matched by NumberMatch, in canonical form
parseFloat(lit) ==
  LET sg == SignLen(lit)
      neg == sg = 1 /\ Head(lit) = "-"
      r == Drop(lit, sg)
      int == RunLen(r, Digits)
      r2 == Drop(r, int)
      dot == IF r2 # <<>> /\ Head(r2) = "." THEN 1 ELSE 0
      frac == RunLen(Drop(r2, dot), Digits)
      r3 == Drop(r2, dot + frac)
      hasExp == r3 # <<>>
      esg == IF hasExp THEN SignLen(Tail(r3)) ELSE 0
      eneg == hasExp /\ esg = 1 /\ r3[2] = "-"
      eabs == IF hasExp THEN DigitsValue(Drop(r3, 1 + esg), 0) ELSE 0
      ex == IF eneg THEN 0 - eabs ELSE eabs
      mant == DigitsValue(SubSeq(r, 1, int) \o SubSeq(r2, dot + 1, dot + frac), 0)
  IN  Norm(IF neg THEN 0 - mant ELSE mant, ex - frac)

CommandToken(c) == [type |-> COMMAND, text |-> c, num |-> Zero]
\* text of a NUMBER token: the canonical decimal, kept in num
NumberToken(v) == [type |-> NUMBER, text |-> "", num |-> v]
EndToken == [type |-> END_OF_D, text |-> "", num |-> Zero]

RECURSIVE tokenizeFrom(_, _)
tokenizeFrom(s, tokens) ==
  IF s = <<>> THEN Append(tokens, EndToken)
  ELSE IF SepMatch(s) > 0 THEN tokenizeFrom(Drop(s, SepMatch(s)), tokens)
  ELSE IF CommandMatch(s) > 0
    THEN tokenizeFrom(Drop(s, 1), Append(tokens, CommandToken(Head(s))))
  ELSE IF NumberMatch(s) > 0
    THEN tokenizeFrom(Drop(s, NumberMatch(s)),
                      Append(tokens, NumberToken(parseFloat(SubSeq(s, 1, NumberMatch(s))))))
  ELSE <<>>

\* the empty sequence is the failure result `[]`; a success ends with END_OF_D
tokenize(s) == tokenizeFrom(s, <<>>)

(***************************************************************************)
(* PARAMS_LENGTH, segments and ParsedPath.processPoints                    *)
(***************************************************************************)
PARAMS_LENGTH ==
  [k \in CommandLetters |->
     CASE k \in {"A", "a"} -> 7
       [] k \in {"C", "c"} -> 6
       [] k \in {"H", "h"} -> 1
       [] k \in {"L", "l"} -> 2
       [] k \in {"M", "m"} -> 2
       [] k \in {"Q", "q"} -> 4
       [] k \in {"S", "s"} -> 4
       [] k = "T" -> 4
       [] k = "t" -> 2
       [] k \in {"V", "v"} -> 1
       [] k \in {"Z", "z"} -> 0]

\* a segment without a point has point = NoPoint
NoPoint == <<>>

Segment(key, data) == [key |-> key, data |-> data, point |-> NoPoint]

\* [s.data[i], s.data[i + 1]] (i counted from 1)
absolute(data, i) == <<data[i], data[i + 1]>>

\* a relative command resolved without currentPoint
relative_direct(data, i, currentPoint) == <<data[i], data[i + 1]>>

\* [s.data[i] + currentPoint[0], s.data[i + 1] + currentPoint[1]]
relative(data, i, currentPoint) ==
  <<Add(data[i], currentPoint[1]), Add(data[i + 1], currentPoint[2])>>

\* the switch of lines 164-217: the point of a segment, NoPoint when none is set
pointOf(key, data, first, currentPoint) ==
  CASE key \in {"M", "L", "T"} -> absolute(data, 1)
    [] key \in {"m", "l", "t"} -> relative(data, 1, currentPoint)
    [] key = "H" -> <<data[1], currentPoint[2]>>
    [] key = "h" -> <<Add(data[1], currentPoint[1]), currentPoint[2]>>
    [] key = "V" -> <<currentPoint[1], data[1]>>
    [] key = "v" -> <<currentPoint[1], Add(data[1], currentPoint[2])>>
    [] key \in {"z", "Z"} -> IF first # NoPoint THEN first ELSE NoPoint
    [] key = "C" -> absolute(data, 5)
    [] key = "c" -> relative(data, 5, currentPoint)
    [] key \in {"S", "Q"} -> absolute(data, 3)
    [] key \in {"s", "q"} -> relative(data, 3, currentPoint)
    [] key = "A" -> absolute(data, 6)
    [] key = "a" -> relative(data, 6, currentPoint)
    [] OTHER -> NoPoint

\* lines 218-220 left out: a move does not reset `first`
firstAfter_noReset(key, pt, first) ==
  LET first2 == IF pt # NoPoint /\ first = NoPoint THEN pt ELSE first
  IN  IF key \in {"z", "Z"} THEN NoPoint ELSE first2

\* lines 218-229: `first` after a segment with key `key` and point `pt`
firstAfter(key, pt, first) ==
  LET first1 == IF key \in {"m", "M"} THEN NoPoint ELSE first
      first2 == IF pt # NoPoint /\ first1 = NoPoint THEN pt ELSE first1
  IN  IF key \in {"z", "Z"} THEN NoPoint ELSE first2

\* the loop of lines 162-230 from segment i on, with the loop's two locals
RECURSIVE processFrom(_, _, _, _)
processFrom(segs, i, first, currentPoint) ==
  IF i > Len(segs) THEN segs
  ELSE LET s == segs[i]
           pt == pointOf(s.key, s.data, first, currentPoint)
       IN  processFrom([segs EXCEPT ![i].point = pt], i + 1,
                       firstAfter(s.key, pt, first),
                       IF pt # NoPoint THEN pt ELSE currentPoint)

\* the constructor without its call of line 70
processPoints_skipped(segs) == segs

processPoints(segs) == processFrom(segs, 1, NoPoint, <<Zero, Zero>>)

(***************************************************************************)
(* ParsedPath.closed and RoughPath.linearPoints, as computed on a miss     *)
(***************************************************************************)
toLowerCase(k) ==
  CASE k = "A" -> "a" [] k = "C" -> "c" [] k = "H" -> "h" [] k = "L" -> "l"
    [] k = "M" -> "m" [] k = "Q" -> "q" [] k = "S" -> "s" [] k = "T" -> "t"
    [] k = "V" -> "v" [] k = "Z" -> "z" [] OTHER -> k

\* line 151 without toLowerCase
computeClosed_caseSensitive(segs) == \E i \in 1..Len(segs) : segs[i].key = "z"

computeClosed(segs) == \E i \in 1..Len(segs) : toLowerCase(segs[i].key) = "z"

\* line 260 testing for a move only
flushes_moveOnly(key, points) == key = "m" /\ Len(points) > 0

\* lines 260-261: the points gathered so far are pushed as one list
flushes(key, points) == key \in {"m", "z"} /\ Len(points) > 0

\* the loop of lines 258-272 from segment i on; lp and points are its locals
RECURSIVE linearFrom(_, _, _, _)
linearFrom(segs, i, lp, points) ==
  IF i > Len(segs)
    THEN IF Len(points) > 0 THEN Append(lp, points) ELSE lp
  ELSE LET s == segs[i]
           key == toLowerCase(s.key)
           lp1 == IF flushes(key, points) THEN Append(lp, points) ELSE lp
           points1 == IF flushes(key, points) THEN <<>> ELSE points
       IN  IF key = "z" THEN linearFrom(segs, i + 1, lp1, points1)
           ELSE IF s.point # NoPoint
             THEN linearFrom(segs, i + 1, lp1, Append(points1, s.point))
           ELSE linearFrom(segs, i + 1, lp1, points1)

computeLinearPoints(segs) == linearFrom(segs, 1, <<>>, <<>>)

(***************************************************************************)
(* Inputs: every string of at most MaxLen characters of Alphabet; every    *)
(* command letter with one or two full sets of its parameters, alone and   *)
(* after each of Prefixes; every string of at most MaxCmds commands with   *)
(* one set of parameters each over SubpathLetters; and the examples of the *)
(* documentation.                                                          *)
(***************************************************************************)
Alphabet == {"M", "L", "Z", "1", ".", "-", ",", "e"}

CharInputs == UNION {[1..k -> Alphabet] : k \in 0..MaxLen}

NumberPool ==
  << <<"1">>, <<"2">>, <<"-", "3">>, <<"4">>, <<".", "5">>, <<"6">>, <<"7">>,
     <<"8">>, <<"1", "0">>, <<"-", "1", "e", "1">>, <<"9">> >>

Reps == {1, 2}

\* how many numbers are written after a letter for one segment of it
FullSet(c) ==
  CASE c \in {"A", "a"} -> 7 [] c \in {"C", "c"} -> 6 [] c \in {"H", "h"} -> 1
    [] c \in {"L", "l"} -> 2 [] c \in {"M", "m"} -> 2 [] c \in {"Q", "q"} -> 4
    [] c \in {"S", "s"} -> 4 [] c = "T" -> 4 [] c = "t" -> 2
    [] c \in {"V", "v"} -> 1 [] c \in {"Z", "z"} -> 0

Group == [c : CommandLetters, k : Reps]

\* n numbers of the pool from position j on, separated by one space
RECURSIVE RenderNumbers(_, _)
RenderNumbers(n, j) ==
  IF n = 0 THEN <<>>
  ELSE NumberPool[(j % Len(NumberPool)) + 1]
         \o (IF n > 1 THEN <<" ">> ELSE <<>>) \o RenderNumbers(n - 1, j + 1)

RECURSIVE RenderGroups(_, _)
RenderGroups(gs, j) ==
  IF gs = <<>> THEN <<>>
  ELSE LET n == Head(gs).k * FullSet(Head(gs).c)
       IN  <<Head(gs).c>> \o RenderNumbers(n, j) \o RenderGroups(Tail(gs), j + n)

Prefixes ==
  { <<>>,
    <<[c |-> "M", k |-> 1]>>,
    <<[c |-> "m", k |-> 2]>>,
    <<[c |-> "M", k |-> 1], [c |-> "z", k |-> 1]>> }

LetterInputs == {RenderGroups(p \o <<g>>, 0) : p \in Prefixes, g \in Group}

SubpathLetters == {"M", "m", "L", "h", "Z", "z"}

SubpathInputs ==
  {RenderGroups(gs, 0) :
     gs \in UNION {[1..k -> [c : SubpathLetters, k : {1}]] : k \in 1..MaxCmds}}

Examples ==
  { <<"M","0",",","0"," ","L","1","0",",","0"," ","L","1","0",",","1","0"," ","Z">>,
    <<"L","5",",","5">>,
    <<"M","0",",","0"," ","L","5">>,
    <<"M","0",",","0"," ","L","5"," ","Z">>,
    <<"M","0",",","0"," ","Z"," ","5",",","5">>,
    <<"5",",","5"," ","L","1",",","1">>,
    <<"m","1",",","1"," ","2",",","2","z","z","l","1",",","1","Z">>,
    <<"M","1"," ","1","x">>,
    <<"m","1",",","1"," ","1",",","1"," ","1","Z">> }

Inputs == CharInputs \cup LetterInputs \cup SubpathInputs \cup Examples

(***************************************************************************)
(* State of one `new RoughPath(d)` and of the reads that follow it.        *)
(***************************************************************************)
VARIABLES
  input,          \* the argument of the constructor
  pc,             \* "new", "parseData", "while", "threw" or "constructed"
  d,              \* the argument of the running parseData call
  tokens,         \* parseData's local tokens
  index,          \* parseData's local index (0-based, as in the source)
  token,          \* parseData's local token
  tokenValue,     \* parseData's local tokenValue
  segments,       \* ParsedPath.segments
  console,        \* the console.error messages, in order
  lap,            \* parity of the number of iterations the loop has run
  closedCache,    \* ParsedPath._closed: <<>> when undefined, else <<value>>
  linearCache,    \* RoughPath._linearPoints: <<>> when undefined, else <<value>>
  closedRead,     \* what the last read of closed returned (<<>>: never read)
  linearRead      \* what the last read of linearPoints returned

pathVars ==
  <<input, pc, d, tokens, index, token, tokenValue, segments, console, lap,
    closedCache, linearCache, closedRead, linearRead>>

\* the state of one RoughArcConverter
VARIABLES
  arcPc,          \* "new" before the constructor, "ready" after it
  arc,            \* the arguments of the constructor
  segIndex,       \* RoughArcConverter._segIndex
  numSegs,        \* RoughArcConverter._numSegs: [nan, n]
  returned        \* what the calls of getNextSegment returned, in order

arcVars == <<arcPc, arc, segIndex, numSegs, returned>>

\* the pen of the RoughPath
VARIABLES
  position,       \* RoughPath._position
  first,          \* RoughPath._first: null or a point
  penCalls        \* the calls of setPosition and of the first setter, in order

penVars == <<position, first, penCalls>>

\* the state of one PathFitter
VARIABLES
  fitPc,          \* "new" before the constructor, "ready" after it, "fitted"
  sets,           \* PathFitter.sets
  fitterClosed,   \* PathFitter.closed
  simplification, \* the argument of fit, in quarters
  outSets,        \* fit's local outSets
  fitted          \* the string fit returned

fitVars == <<fitPc, sets, fitterClosed, simplification, outSets, fitted>>

\* the state of one call of PathFitter.reduce
VARIABLES
  reducePc,       \* "new" before the call, "while" in its loop, "returned"
  reduceSet,      \* the argument set
  reduceCount,    \* the argument count
  reducePoints,   \* the local points
  removals        \* the splices made: the list before each and its index

reduceVars == <<reducePc, reduceSet, reduceCount, reducePoints, removals>>

\* tokens[index] of an empty array
undefined == [type |-> "undefined", text |-> "", num |-> Zero]

BEGIN_OF_D == "BEGIN_OF_D"

M00 == <<"M", "0", ",", "0">>

PathInit ==
  /\ input = <<>>
  /\ pc = "new"
  /\ d = <<>>
  /\ tokens = <<>>
  /\ index = 0
  /\ token = undefined
  /\ tokenValue = BEGIN_OF_D
  /\ segments = <<>>
  /\ console = <<>>
  /\ lap = 0
  /\ closedCache = <<>>
  /\ linearCache = <<>>
  /\ closedRead = <<>>
  /\ linearRead = <<>>

\* new RoughPath(s) (lines 242-244), up to the call of parseData (line 69)
newRoughPath ==
  /\ pc = "new"
  /\ \E s \in Inputs :
       /\ input' = s
       /\ d' = s
  /\ pc' = "parseData"
  /\ UNCHANGED <<tokens, index, token, tokenValue, segments, console, lap,
                 closedCache, linearCache, closedRead, linearRead>>
  /\ UNCHANGED <<arcVars, penVars, fitVars, reduceVars>>

\* console.error(msg); the log is followed up to MaxErrors messages
error(log, msg) == IF Len(log) < MaxErrors THEN Append(log, msg) ELSE log

\* lines 93-97: the entry of parseData(d), up to the loop
parseData ==
  /\ pc = "parseData"
  /\ tokens' = tokenize(d)
  /\ index' = 0
  /\ token' = IF tokens' = <<>> THEN undefined ELSE tokens'[1]
  /\ tokenValue' = BEGIN_OF_D
  /\ segments' = <<>>
  /\ pc' = "while"
  /\ UNCHANGED <<input, d, console, lap, closedCache, linearCache, closedRead,
                 linearRead>>
  /\ UNCHANGED <<arcVars, penVars, fitVars, reduceVars>>

\* the loop of line 120 stopping one slot early
takeParams_short(toks, from, paramLength) ==
  [i \in 1..(paramLength - 1) |-> toks[from + i].num]

\* lines 120-124, when every slot holds a number: params
takeParams(toks, from, paramLength) ==
  [i \in 1..paramLength |-> toks[from + i].num]

\* lines 135-136 left out
nextTokenValue_kept(tv) == tv

\* the key that follows a pushed segment (lines 135-136)
nextTokenValue(tv) == IF tv = "M" THEN "L" ELSE IF tv = "m" THEN "l" ELSE tv

\* lines 98-144: the test of the loop and one iteration; a return (or the end
\* of the loop) runs the rest of the constructor, processPoints (line 70)
whileStep ==
  /\ pc = "while"
  /\ LET isNumber == token.type = NUMBER
         recurse == tokenValue = BEGIN_OF_D /\ token.text \notin {"M", "m"}
         index1 == IF isNumber /\ tokenValue # BEGIN_OF_D THEN index ELSE index + 1
         tokenValue1 == IF isNumber /\ tokenValue # BEGIN_OF_D THEN tokenValue
                        ELSE token.text
         paramLength == PARAMS_LENGTH[tokenValue1]
         enough == index1 + paramLength < Len(tokens)
         slots == index1 .. (index1 + paramLength - 1)
         bad == {i \in slots : tokens[i + 1].type # NUMBER}
         params == takeParams(tokens, index1, paramLength)
     IN  IF token = undefined
           THEN \* token.type of undefined: a TypeError leaves the constructor
                /\ pc' = "threw"
                /\ UNCHANGED <<d, tokens, index, token, tokenValue, segments, console>>
         ELSE IF token.type = END_OF_D
           THEN /\ pc' = "constructed"
                /\ segments' = processPoints(segments)
                /\ UNCHANGED <<d, tokens, index, token, tokenValue, console>>
         ELSE IF recurse
           THEN \* this.parseData('M0,0' + d); return;
                /\ pc' = "parseData"
                /\ d' = M00 \o d
                /\ UNCHANGED <<tokens, index, token, tokenValue, segments, console>>
         ELSE IF ~enough
           THEN \* 'Path data ended short': no return, the loop goes on (the
                \* log and index are followed up to MaxErrors messages)
                /\ pc' = "while"
                /\ console' = error(console, "Path data ended short")
                /\ index' = IF Len(console) < MaxErrors THEN index1 ELSE index
                /\ tokenValue' = tokenValue1
                /\ UNCHANGED <<d, tokens, token, segments>>
         ELSE IF bad # {}
           THEN \* 'Param not a number': return
                /\ pc' = "constructed"
                /\ console' = error(console, "Param not a number")
                /\ index' = index1
                /\ tokenValue' = tokenValue1
                /\ segments' = processPoints(segments)
                /\ UNCHANGED <<d, tokens, token>>
         ELSE /\ Len(segments) < MaxSegs
              /\ pc' = "while"
              /\ segments' = Append(segments, Segment(tokenValue1, params))
              /\ index' = index1 + paramLength
              /\ token' = tokens[index1 + paramLength + 1]
              /\ tokenValue' = nextTokenValue(tokenValue1)
              /\ UNCHANGED <<d, tokens, console>>
  /\ lap' = 1 - lap
  /\ UNCHANGED <<input, closedCache, linearCache, closedRead, linearRead>>
  /\ UNCHANGED <<arcVars, penVars, fitVars, reduceVars>>

\* get closed (lines 147-157, through RoughPath.closed, lines 250-252)
closed ==
  /\ pc = "constructed"
  /\ closedCache' = IF closedCache = <<>> THEN <<computeClosed(segments)>>
                    ELSE closedCache
  /\ closedRead' = closedCache'
  /\ UNCHANGED <<input, pc, d, tokens, index, token, tokenValue, segments,
                 console, lap, linearCache, linearRead>>
  /\ UNCHANGED <<arcVars, penVars, fitVars, reduceVars>>

\* get linearPoints (lines 254-280)
linearPoints ==
  /\ pc = "constructed"
  /\ linearCache' = IF linearCache = <<>> THEN <<computeLinearPoints(segments)>>
                    ELSE linearCache
  /\ linearRead' = linearCache'
  /\ UNCHANGED <<input, pc, d, tokens, index, token, tokenValue, segments,
                 console, lap, closedCache, closedRead>>
  /\ UNCHANGED <<arcVars, penVars, fitVars, reduceVars>>

(***************************************************************************)
(* RoughArcConverter.  The constructor's arithmetic is followed exactly on *)
(* integer endpoints and radii and on rotations by multiples of 90 degrees *)
(* (sin and cos are then taken as exactly 0, 1 or -1), up to the square    *)
(* root of line 354, of which only the sign and the position relative to 1 *)
(* matter for _numSegs.  A double that is NaN is kept as NaN.  Where the   *)
(* exact angle is a multiple of PI/2 the rounding of atan2 and of the      *)
(* division of line 368 decides on which side Math.ceil falls: both sides  *)
(* are possible outcomes.                                                  *)
(***************************************************************************)
Coords == (0 - MaxCoord)..MaxCoord

ArcInputs ==
  [from : Coords \X Coords, to : Coords \X Coords,
   radii : ((0 - 1)..MaxRadius) \X ((0 - 1)..MaxRadius),
   angle : {0, 90}, largeArcFlag : BOOLEAN, sweepFlag : BOOLEAN]

NoArc ==
  [from |-> <<0, 0>>, to |-> <<0, 0>>, radii |-> <<0, 0>>, angle |-> 0,
   largeArcFlag |-> FALSE, sweepFlag |-> FALSE]

\* a double that holds an integer, or NaN
Finite(n) == [nan |-> FALSE, n |-> n]
NaN == [nan |-> TRUE, n |-> 0]

\* a === b on doubles: false when either is NaN
StrictEquals(a, b) == ~a.nan /\ ~b.nan /\ a.n = b.n

ArcInit ==
  /\ arcPc = "new"
  /\ arc = NoArc
  /\ segIndex = Finite(0)
  /\ numSegs = Finite(0)
  /\ returned = <<>>

Abs(x) == IF x < 0 THEN 0 - x ELSE x

Sign(x) == IF x < 0 THEN 0 - 1 ELSE IF x > 0 THEN 1 ELSE 0

\* Math.sin and Math.cos of angle * radPerDeg (lines 341-342), angle in {0, 90}
sinPhi(angle) == IF angle = 90 THEN 1 ELSE 0
cosPhi(angle) == IF angle = 90 THEN 0 ELSE 1

\* twice x1dash and twice y1dash (lines 343-344)
x1dash2(a) ==
  cosPhi(a.angle) * (a.from[1] - a.to[1]) + sinPhi(a.angle) * (a.from[2] - a.to[2])
y1dash2(a) ==
  (0 - sinPhi(a.angle)) * (a.from[1] - a.to[1])
    + cosPhi(a.angle) * (a.from[2] - a.to[2])

\* four times numerator (line 346), with rx and ry of lines 339-340
numerator4(a) ==
  LET rx == Abs(a.radii[1])
      ry == Abs(a.radii[2])
  IN  4 * rx * rx * ry * ry - rx * rx * y1dash2(a) * y1dash2(a)
        - ry * ry * x1dash2(a) * x1dash2(a)

\* four times the divisor of line 354
divisor4(a) ==
  LET rx == Abs(a.radii[1])
      ry == Abs(a.radii[2])
  IN  rx * rx * y1dash2(a) * y1dash2(a) + ry * ry * x1dash2(a) * x1dash2(a)

\* lines 347-350 make a radius NaN: numerator / 0 is -Infinity, s is
\* Infinity, and 0 * Infinity is NaN (the other radius becomes Infinity)
radiiNaN(a) == numerator4(a) < 0 /\ a.radii[1] * a.radii[2] = 0

\* line 354 makes root NaN: 0 / 0
rootNaN(a) == numerator4(a) >= 0 /\ divisor4(a) = 0

\* the sign of root (lines 351-354) when it is not NaN
rootSign(a) ==
  IF numerator4(a) <= 0 THEN 0
  ELSE IF a.largeArcFlag = a.sweepFlag THEN 0 - 1 ELSE 1

\* An angle in quarter turns: exactly q * PI/2 (exact), or strictly between
\* (q - 1) * PI/2 and q * PI/2.
Angle(q, exact) == [q |-> q, exact |-> exact]

\* calculateVectorAngle (lines 407-413) of the two vectors of line 362,
\* u = (a - r*b, b + r*a) and v = (-a - r*b, -b + r*a) for a = x1dash/rx,
\* b = y1dash/ry and r = root: the angle from u to v in [0, 2 PI) has the
\* sign of u x v = 2r(a^2 + b^2) and of u . v = (r^2 - 1)(a^2 + b^2), and
\* r^2 = numerator / divisor.
calculateVectorAngle(a) ==
  LET cross == rootSign(a)
      dot == IF numerator4(a) <= 0 THEN 0 - 1
             ELSE Sign(numerator4(a) - divisor4(a))
  IN  CASE cross > 0 /\ dot > 0 -> Angle(1, FALSE)
        [] cross > 0 /\ dot = 0 -> Angle(1, TRUE)
        [] cross > 0 /\ dot < 0 -> Angle(2, FALSE)
        [] cross = 0 -> Angle(2, TRUE)
        [] cross < 0 /\ dot < 0 -> Angle(3, FALSE)
        [] cross < 0 /\ dot = 0 -> Angle(3, TRUE)
        [] cross < 0 /\ dot > 0 -> Angle(4, FALSE)

\* |dtheta| after lines 363-367: dtheta - 2 PI when sweepFlag is false (the
\* angle is positive here); the branch of line 365 is never taken
dthetaSize(a) ==
  LET t == calculateVectorAngle(a)
  IN  IF a.sweepFlag THEN t
      ELSE IF t.exact THEN Angle(4 - t.q, TRUE) ELSE Angle(5 - t.q, FALSE)

\* the values Math.ceil(Math.abs(dtheta / (Math.PI / 2))) can take (line 368);
\* |dtheta| never exceeds 2 * Math.PI, whose quotient by Math.PI / 2 is 4
\* the constructor without the early return of lines 335-337
numSegsOf_noReturn(a) ==
  IF radiiNaN(a) \/ rootNaN(a) THEN {NaN}
  ELSE LET t == dthetaSize(a)
       IN  IF t.exact THEN {Finite(t.q), Finite(Min(t.q + 1, 4))}
           ELSE {Finite(t.q)}

numSegsOf(a) ==
  IF a.from = a.to THEN {Finite(0)}
  ELSE IF radiiNaN(a) \/ rootNaN(a) THEN {NaN}
  ELSE LET t == dthetaSize(a)
       IN  IF t.exact THEN {Finite(t.q), Finite(Min(t.q + 1, 4))}
           ELSE {Finite(t.q)}

\* new RoughArcConverter(from, to, radii, angle, largeArcFlag, sweepFlag)
newRoughArcConverter ==
  /\ arcPc = "new"
  /\ arc' \in ArcInputs
  /\ numSegs' \in numSegsOf(arc')
  /\ arcPc' = "ready"
  /\ UNCHANGED <<segIndex, returned>>
  /\ UNCHANGED <<pathVars, penVars, fitVars, reduceVars>>

\* getNextSegment(): null, or a segment (its coordinates are not followed)
getNextSegment ==
  /\ arcPc = "ready"
  /\ Len(returned) < MaxCalls
  /\ IF StrictEquals(segIndex, numSegs)
       THEN /\ returned' = Append(returned, "null")
            /\ UNCHANGED segIndex
       ELSE /\ returned' = Append(returned, "segment")
            /\ segIndex' = Finite(segIndex.n + 1)
  /\ UNCHANGED <<arcPc, arc, numSegs>>
  /\ UNCHANGED <<pathVars, penVars, fitVars, reduceVars>>

(***************************************************************************)
(* The pen of a RoughPath: setPosition and the accessors of first (lines   *)
(* 282-307).  The arguments are numbers given by the caller.               *)
(***************************************************************************)
null == <<>>

PenPoints == {<<0, 0>>, <<1, 2>>, <<3, 1>>}

PenInit ==
  /\ position = <<0, 0>>
  /\ first = null
  /\ penCalls = <<>>

\* new RoughPath(s) for the descriptions of Examples (lines 242-244)
newExample ==
  /\ pc = "new"
  /\ \E s \in Examples :
       /\ input' = s
       /\ d' = s
  /\ pc' = "parseData"
  /\ UNCHANGED <<tokens, index, token, tokenValue, segments, console, lap,
                 closedCache, linearCache, closedRead, linearRead>>
  /\ UNCHANGED <<arcVars, penVars, fitVars, reduceVars>>

\* lines 292-294 without the test
firstAfterSetPosition_always(f, x, y) == <<x, y>>

\* _first after setPosition(x, y) (lines 292-294)
firstAfterSetPosition(f, x, y) == IF f = null THEN <<x, y>> ELSE f

\* setPosition(x, y) (lines 290-295)
setPosition ==
  /\ pc = "constructed"
  /\ Len(penCalls) < MaxPenCalls
  /\ \E p \in PenPoints :
       /\ position' = p
       /\ first' = firstAfterSetPosition(first, p[1], p[2])
       /\ penCalls' = Append(penCalls, [op |-> "setPosition", arg |-> p])
  /\ UNCHANGED <<pathVars, arcVars, fitVars, reduceVars>>

\* set first(v) (lines 286-288)
setFirst ==
  /\ pc = "constructed"
  /\ Len(penCalls) < MaxPenCalls
  /\ \E v \in PenPoints \cup {null} :
       /\ first' = v
       /\ penCalls' = Append(penCalls, [op |-> "first", arg |-> v])
  /\ UNCHANGED position
  /\ UNCHANGED <<pathVars, arcVars, fitVars, reduceVars>>

(***************************************************************************)
(* PathFitter (lines 416-485).  Points have integer coordinates.           *)
(*                                                                         *)
(* lineLength comes from ./geometry: the Euclidean distance of the two     *)
(* points of a line.  A length is followed by its square, an integer; the  *)
(* double is exact when the square is a perfect square and a rounded       *)
(* square root otherwise.  Heron's formula of line 470 is followed by      *)
(* 16 * area^2, an integer polynomial of the squares, which orders the     *)
(* areas; with rounded lengths the double it gives is the exact area up to *)
(* rounding: a little under, exact or a little over, and for a triangle of *)
(* area 0 the product under the square root may round below 0, which makes *)
(* the area NaN.  Equal side lengths in equal places give equal doubles,   *)
(* and a triangle with two equal points has the other two sides equal as   *)
(* doubles, s equal to them and the area exactly 0.                        *)
(***************************************************************************)
lineLength(line) ==
  LET dx == line[1][1] - line[2][1]
      dy == line[1][2] - line[2][2]
      sq == dx * dx + dy * dy
  IN  [sq |-> sq, exact |-> \E k \in 0..sq : k * k = sq]

\* 16 * s * (s - a) * (s - b) * (s - c) for s = (a + b + c) / 2
heron16(a, b, c) ==
  2 * (a.sq * b.sq + b.sq * c.sq + c.sq * a.sq)
    - (a.sq * a.sq + b.sq * b.sq + c.sq * c.sq)

Roundings == {"under", "exact", "over"}

NaNArea == [nan |-> TRUE, h |-> 0, ulp |-> 0]

\* the initial minArea, -1
MinusOne == [nan |-> FALSE, h |-> 0 - 1, ulp |-> 0]

\* lines 469-470: the double area, for one way the roundings fall
area(a, b, c, rounding) ==
  LET h == heron16(a, b, c)
  IN  IF (a.exact /\ b.exact /\ c.exact) \/ rounding = "exact"
         \/ a.sq = 0 \/ b.sq = 0 \/ c.sq = 0
        THEN [nan |-> FALSE, h |-> h, ulp |-> 0]
      ELSE IF rounding = "over" THEN [nan |-> FALSE, h |-> h, ulp |-> 1]
      ELSE IF h = 0 THEN NaNArea
      ELSE [nan |-> FALSE, h |-> h, ulp |-> 0 - 1]

\* x < y on doubles: false when either is NaN
LessThan(x, y) ==
  /\ ~x.nan
  /\ ~y.nan
  /\ x.h < y.h \/ (x.h = y.h /\ x.ulp < y.ulp)

\* minArea < 0
Negative(x) == ~x.nan /\ x.h < 0

\* a, b, c of lines 466-468 for the source's index i (points[i] is the
\* (i + 1)-th point)
sides(points, i) ==
  <<lineLength(<<points[i], points[i + 1]>>),
    lineLength(<<points[i + 1], points[i + 2]>>),
    lineLength(<<points[i], points[i + 2]>>)>>

\* the source's indexes of the interior points
Interior(points) == 1..(Len(points) - 2)

\* the test of line 472
replaces(ar, minArea) == Negative(minArea) \/ LessThan(ar, minArea)

\* the for loop of lines 465-476 from index i on, r giving the rounding of
\* each triple of sides: minIndex at its end
RECURSIVE scan(_, _, _, _, _)
scan(points, r, i, minArea, minIndex) ==
  IF i >= Len(points) - 1 THEN minIndex
  ELSE LET t == sides(points, i)
           ar == area(t[1], t[2], t[3], r[t])
       IN  IF replaces(ar, minArea)
             THEN scan(points, r, i + 1, ar, i)
           ELSE scan(points, r, i + 1, minArea, minIndex)

\* the values minIndex can have after the for loop (lines 462-476): -1 when
\* there is no interior point
minIndexes(points) ==
  LET T == {sides(points, i) : i \in Interior(points)}
      rounded == {t \in T : ~(t[1].exact /\ t[2].exact /\ t[3].exact)}
  IN  {scan(points, [t \in T |-> IF t \in rounded THEN r[t] ELSE "exact"],
            1, MinusOne, 0 - 1) : r \in [rounded -> Roundings]}

\* line 478 removing the first point
splice_first(points, minIndex) == Tail(points)

\* line 478 removing nothing
splice_none(points, minIndex) == points

\* points.splice(minIndex, 1) (line 478)
splice(points, minIndex) ==
  SubSeq(points, 1, minIndex) \o SubSeq(points, minIndex + 2, Len(points))

\* the while loop of lines 461-482: the lists it can end with
RECURSIVE whileOutcomes(_, _)
whileOutcomes(points, count) ==
  IF Len(points) > count
    THEN UNION {IF minIndex > 0
                  THEN whileOutcomes(splice(points, minIndex), count)
                ELSE {points} : minIndex \in minIndexes(points)}
  ELSE {points}

\* reduce working on the caller's array (line 460 without the copy)
reduce_inPlace(set, count) ==
  IF Len(set) <= count THEN {[set |-> set, points |-> set]}
  ELSE {[set |-> p, points |-> p] : p \in whileOutcomes(set, count)}

\* reduce(set, count) (lines 456-484): the lists it can return, each with
\* the caller's array as the call leaves it
reduce(set, count) ==
  IF Len(set) <= count THEN {[set |-> set, points |-> set]}
  ELSE {[set |-> set, points |-> p] : p \in whileOutcomes(set, count)}

\* Math.floor(simplification * length) for simplification = quarters / 4
\* (line 429); the product is exact in doubles
floorOfProduct(quarters, length) == (quarters * length) \div 4

\* the least number of points fit keeps (lines 430-434)
MinPoints == 5

\* lines 431-434 keeping the short subpaths
dropped_never(length, estLength) == FALSE

\* lines 430-433: the subpath is skipped
dropped(length, estLength) == estLength < MinPoints /\ length <= MinPoints

\* the first loop of fit (lines 426-437) from the i-th set on: the values of
\* [sets, outSets] it can end with
RECURSIVE fitSets(_, _, _, _)
fitSets(ss, i, quarters, out) ==
  IF i > Len(ss) THEN {[sets |-> ss, outSets |-> out]}
  ELSE LET length == Len(ss[i])
           estLength == floorOfProduct(quarters, length)
       IN  IF dropped(length, estLength)
             THEN fitSets(ss, i + 1, quarters, out)
           ELSE UNION {fitSets([ss EXCEPT ![i] = r.set], i + 1, quarters,
                               Append(out, r.points)) :
                         r \in reduce(ss[i], IF estLength < MinPoints
                                               THEN MinPoints ELSE estLength)}

DigitChar(k) == CHOOSE c \in Digits : DigitVal(c) = k

RECURSIVE digitsOf(_)
digitsOf(n) ==
  IF n < 10 THEN <<DigitChar(n)>>
  ELSE digitsOf(n \div 10) \o <<DigitChar(n % 10)>>

\* the string of an integer in 'M' + point[0] (lines 444, 446)
numberToString(n) == IF n < 0 THEN <<"-">> \o digitsOf(0 - n) ELSE digitsOf(n)

\* lines 442-448: one set of outSets
RECURSIVE pointsString(_, _)
pointsString(set, i) ==
  IF i > Len(set) THEN <<>>
  ELSE <<IF i = 1 THEN "M" ELSE "L">> \o numberToString(set[i][1]) \o <<",">>
         \o numberToString(set[i][2]) \o pointsString(set, i + 1)

\* lines 449-451 closing every subpath
closing_always(isClosed) == <<"z", " ">>

\* lines 449-451
closing(isClosed) == IF isClosed THEN <<"z", " ">> ELSE <<>>

\* the second loop of fit (lines 439-453)
RECURSIVE fitString(_, _)
fitString(out, isClosed) ==
  IF out = <<>> THEN <<>>
  ELSE pointsString(Head(out), 1) \o closing(isClosed)
         \o fitString(Tail(out), isClosed)

\* the subpaths given to a fitter: the first n points of three curves
Curve(name, n) ==
  [i \in 1..n |->
     CASE name = "line" -> <<i, 0>>
       [] name = "diagonal" -> <<i, 2 * i>>
       [] name = "zigzag" -> <<4 * i - 14, 3 * (i % 2) - 1>>]

Subpaths == {Curve(name, n) : name \in {"line", "diagonal", "zigzag"},
                              n \in 0..MaxPoints}

FitInputs == {<<>>} \cup {<<a>> : a \in Subpaths}
               \cup {<<a, b>> : a, b \in Subpaths}

FitInit ==
  /\ fitPc = "new"
  /\ sets = <<>>
  /\ fitterClosed = FALSE
  /\ simplification = 0
  /\ outSets = <<>>
  /\ fitted = <<>>

\* new PathFitter(sets, closed) (lines 420-423)
newPathFitter ==
  /\ fitPc = "new"
  /\ sets' \in FitInputs
  /\ fitterClosed' \in BOOLEAN
  /\ fitPc' = "ready"
  /\ UNCHANGED <<simplification, outSets, fitted>>
  /\ UNCHANGED <<pathVars, arcVars, penVars, reduceVars>>

\* fit(simplification) (lines 425-454)
fit ==
  /\ fitPc = "ready"
  /\ \E quarters \in 0..MaxQuarters :
       \E r \in fitSets(sets, 1, quarters, <<>>) :
         /\ simplification' = quarters
         /\ sets' = r.sets
         /\ outSets' = r.outSets
         /\ fitted' = fitString(r.outSets, fitterClosed)
  /\ fitPc' = "fitted"
  /\ UNCHANGED fitterClosed
  /\ UNCHANGED <<pathVars, arcVars, penVars, reduceVars>>

\* new RoughPath(d) for the string fit returned (lines 242-244)
newRoughPathOfFitted ==
  /\ pc = "new"
  /\ fitPc = "fitted"
  /\ input' = fitted
  /\ d' = fitted
  /\ pc' = "parseData"
  /\ UNCHANGED <<tokens, index, token, tokenValue, segments, console, lap,
                 closedCache, linearCache, closedRead, linearRead>>
  /\ UNCHANGED <<arcVars, penVars, fitVars, reduceVars>>

\* the point lists and the counts given to reduce on its own
ReducePoints == {<<0, 0>>, <<1, 0>>, <<1, 1>>, <<4, 4>>, <<3, 0>>, <<3, 4>>}

ReduceInputs == UNION {[1..n -> ReducePoints] : n \in 0..MaxReduce}

ReduceCounts == (0 - 1)..(MaxReduce + 1)

ReduceInit ==
  /\ reducePc = "new"
  /\ reduceSet = <<>>
  /\ reduceCount = 0
  /\ reducePoints = <<>>
  /\ removals = <<>>

\* reduce(set, count) up to the loop: lines 457-460
callReduce ==
  /\ reducePc = "new"
  /\ reduceSet' \in ReduceInputs
  /\ reduceCount' \in ReduceCounts
  /\ reducePoints' = reduceSet'
  /\ reducePc' = IF Len(reduceSet') <= reduceCount' THEN "returned" ELSE "while"
  /\ UNCHANGED removals
  /\ UNCHANGED <<pathVars, arcVars, penVars, fitVars>>

\* the test of the while loop and one iteration (lines 461-482), and the
\* return of line 483 when the loop ends
reduceStep ==
  /\ reducePc = "while"
  /\ IF Len(reducePoints) > reduceCount
       THEN \E minIndex \in minIndexes(reducePoints) :
              IF minIndex > 0
                THEN /\ reducePoints' = splice(reducePoints, minIndex)
                     /\ removals' = Append(removals,
                                           [points |-> reducePoints,
                                            minIndex |-> minIndex])
                     /\ reducePc' = "while"
              ELSE /\ reducePc' = "returned"
                   /\ UNCHANGED <<reducePoints, removals>>
     ELSE /\ reducePc' = "returned"
          /\ UNCHANGED <<reducePoints, removals>>
  /\ UNCHANGED <<reduceSet, reduceCount>>
  /\ UNCHANGED <<pathVars, arcVars, penVars, fitVars>>

vars == <<pathVars, arcVars, penVars, fitVars, reduceVars>>

Init == PathInit /\ ArcInit /\ PenInit /\ FitInit /\ ReduceInit

Next == newRoughPath \/ parseData \/ whileStep \/ closed \/ linearPoints

Spec == Init /\ [][Next]_vars

ArcNext == newRoughArcConverter \/ getNextSegment

SpecArc == Init /\ [][ArcNext]_vars

\* a running loop goes on running: nothing preempts the next iteration of
\* parseData's loop
FairSpec == Spec /\ WF_vars(whileStep)

PenNext ==
  \/ newExample \/ parseData \/ whileStep \/ closed \/ linearPoints
  \/ setPosition \/ setFirst

SpecPen == Init /\ [][PenNext]_vars

FitNext ==
  \/ newPathFitter \/ fit \/ newRoughPathOfFitted
  \/ parseData \/ whileStep \/ closed \/ linearPoints

SpecFit == Init /\ [][FitNext]_vars

ReduceNext == callReduce \/ reduceStep

SpecReduce == Init /\ [][ReduceNext]_vars

(***************************************************************************)
(* Properties of the tokenizer and the parser.                             *)
(***************************************************************************)
KeyData(segs) ==
  [i \in 1..Len(segs) |-> [key |-> segs[i].key, data |-> segs[i].data]]

Constructed == pc = "constructed"

\* C1: an input with a character sequence that no branch of the tokenizer
\* matches never makes the constructor throw, and the constructed path has
\* an empty segment list.
C1_NoThrowOnBadInput ==
  tokenize(input) = <<>> =>
    /\ pc # "threw"
    /\ Constructed => segments = <<>>

\* the loop has reported 'Path data ended short' and is still running
EndedShort ==
  /\ pc = "while"
  /\ console # <<>>
  /\ console[Len(console)] = "Path data ended short"

\* C2: when a command is followed by fewer tokens than its arity before the
\* end of the description, parseData terminates and the segment list is the
\* list of the segments produced before the short command.
C2_ShortInputTerminates ==
  /\ EndedShort ~> Constructed
  /\ [][EndedShort => KeyData(segments') = KeyData(segments)]_vars

\* C3: a tokenizable input whose first token is a command other than M/m or
\* a number is parsed as the tokens M 0 0 followed by its own tokens: the
\* first segment is M with data [0,0] and point (0,0); and a non-empty
\* segment list always starts with M or m.
C3_SyntheticMove ==
  LET orig == tokenize(input)
  IN  /\ ( /\ Constructed
           /\ orig # <<>>
           /\ orig[1].type \in {COMMAND, NUMBER}
           /\ orig[1].text \notin {"M", "m"} ) =>
             /\ segments # <<>>
             /\ segments[1] = [key |-> "M", data |-> <<Zero, Zero>>,
                               point |-> <<Zero, Zero>>]
             /\ tokens = <<CommandToken("M"), NumberToken(Zero), NumberToken(Zero)>>
                           \o orig
      /\ segments # <<>> => segments[1].key \in {"M", "m"}

\* the command table as the documentation gives it: T/t:4
DocumentedArity(k) == IF k = "t" THEN 4 ELSE FullSet(k)

Consumed == SubSeq(tokens, 1, index)

RECURSIVE NumberRun(_)
NumberRun(ts) ==
  IF ts # <<>> /\ Head(ts).type = NUMBER THEN 1 + NumberRun(Tail(ts)) ELSE 0

\* every command of ts is followed by k full sets of parameters, k >= 1
\* (by none when its arity is 0)
RECURSIVE WellFormed(_)
WellFormed(ts) ==
  IF ts = <<>> THEN TRUE
  ELSE /\ Head(ts).type = COMMAND
       /\ LET n == FullSet(Head(ts).text)
              r == NumberRun(Tail(ts))
          IN  /\ IF n = 0 THEN r = 0 ELSE r > 0 /\ r % n = 0
              /\ WellFormed(Drop(ts, 1 + r))

RepeatedKey(c) == IF c = "M" THEN "L" ELSE IF c = "m" THEN "l" ELSE c

\* the run nums after the letter c, n numbers to a segment
RECURSIVE Repetitions(_, _, _, _)
Repetitions(c, written, nums, n) ==
  IF nums = <<>> THEN <<>>
  ELSE <<[key |-> IF written THEN c ELSE RepeatedKey(c),
          data |-> SubSeq(nums, 1, n)]>>
         \o Repetitions(c, FALSE, Drop(nums, n), n)

\* the segments a well-formed token list denotes
RECURSIVE Denoted(_)
Denoted(ts) ==
  IF ts = <<>> THEN <<>>
  ELSE LET c == Head(ts).text
           n == FullSet(c)
           r == NumberRun(Tail(ts))
           nums == [i \in 1..r |-> ts[i + 1].num]
       IN  (IF n = 0 THEN <<[key |-> c, data |-> <<>>]>>
            ELSE Repetitions(c, TRUE, nums, n))
             \o Denoted(Drop(ts, 1 + r))

\* C5: a command letter of arity n > 0 followed by k*n numbers gives k
\* segments in input order with n numbers each; the first has the written
\* key and the others repeat it, L after M and l after m.  Stated of the
\* consumed tokens whenever each of their commands has full sets of
\* parameters (numbers that follow a Z/z are not the subject here).
C5_ImplicitRepetition ==
  ( /\ pc \in {"while", "constructed"}
    /\ index <= Len(tokens)
    /\ ~(tokenValue \in {"Z", "z"} /\ token.type = NUMBER)
    /\ WellFormed(Consumed) ) =>
      KeyData(segments) = Denoted(Consumed)

C5_Witness ==
  /\ Constructed
  /\ WellFormed(Consumed)
  /\ \A i \in 1..Len(tokens) : tokens[i].text \notin {"l", "c"}
  /\ \E i \in 1..Len(segments) - 2 :
       /\ segments[i].key = "m" /\ segments[i + 1].key = "l"
       /\ segments[i + 2].key = "C"

(***************************************************************************)
(* Properties of the resolved points and of the reads.                     *)
(***************************************************************************)
IsClose(i) == segments[i].key \in {"z", "Z"}

IsMove(i) == segments[i].key \in {"m", "M"}

Largest(S) == CHOOSE j \in S : \A k \in S : k <= j

Origin == <<Zero, Zero>>

Ten == Num(10)

Example1 ==
  <<"M","0",",","0"," ","L","1","0",",","0"," ","L","1","0",",","1","0"," ","Z">>

Points(segs) == [i \in 1..Len(segs) |-> segs[i].point]

\* the last Z/z before segment i, 0 when there is none
PreviousClose(i) ==
  LET S == {j \in 1..(i - 1) : IsClose(j)}
  IN  IF S = {} THEN 0 ELSE Largest(S)

\* the segment that starts the subpath a Z/z at i closes: the last M/m since
\* the previous Z/z, else the first segment after the previous Z/z
SubpathStart(i) ==
  LET moves == {j \in (PreviousClose(i) + 1)..(i - 1) : IsMove(j)}
  IN  IF moves # {} THEN Largest(moves) ELSE PreviousClose(i) + 1

\* C6: after construction every segment other than Z/z has a point; a Z/z
\* right after a Z/z has none; any other Z/z has the point of the start of
\* its subpath (the last M/m, or the first segment after the previous Z/z).
\* "M0,0 L10,0 L10,10 Z" gives (0,0),(10,0),(10,10),(0,0).
C6_ClosePoints ==
  Constructed =>
    /\ \A i \in 1..Len(segments) :
         IF ~IsClose(i) THEN segments[i].point # NoPoint
         ELSE IF PreviousClose(i) = i - 1 THEN segments[i].point = NoPoint
         ELSE /\ segments[i].point # NoPoint
              /\ segments[i].point = segments[SubpathStart(i)].point
    /\ input = Example1 =>
         Points(segments) = <<Origin, <<Ten, Zero>>, <<Ten, Ten>>, Origin>>

C6_Witness ==
  /\ Constructed
  /\ \E i, j, k \in 1..Len(segments) :
       /\ IsClose(i) /\ segments[i].point = NoPoint
       /\ IsClose(j) /\ IsMove(SubpathStart(j)) /\ segments[j].point # NoPoint
       /\ IsClose(k) /\ ~IsMove(SubpathStart(k)) /\ segments[k].point # NoPoint

\* currentPoint when segment i is resolved
CurrentPointAt(i) ==
  LET S == {j \in 1..(i - 1) : segments[j].point # NoPoint}
  IN  IF S = {} THEN Origin ELSE segments[Largest(S)].point

UpperCase == {"A", "C", "H", "L", "M", "Q", "S", "T", "V", "Z"}

\* the per-command table: where the coordinate pair (or coordinate) sits
PairAt(key) ==
  CASE key \in {"M", "m", "L", "l", "T", "t"} -> 1
    [] key \in {"S", "s", "Q", "q"} -> 3
    [] key \in {"C", "c"} -> 5
    [] key \in {"A", "a"} -> 6

\* a coordinate: given directly (uppercase) or as an offset from c (lowercase)
Coordinate(key, x, c) == IF key \in UpperCase THEN x ELSE Add(x, c)

Resolved(key, data, cp) ==
  CASE key \in {"H", "h"} -> <<Coordinate(key, data[1], cp[1]), cp[2]>>
    [] key \in {"V", "v"} -> <<cp[1], Coordinate(key, data[1], cp[2])>>
    [] OTHER -> <<Coordinate(key, data[PairAt(key)], cp[1]),
                  Coordinate(key, data[PairAt(key) + 1], cp[2])>>

\* C7: every segment other than Z/z has the point of the per-command table
\* applied to currentPoint, the last point resolved before it ((0,0) at the
\* start): uppercase direct, lowercase offset by currentPoint; a Z/z without
\* a point does not change currentPoint.
C7_Resolution ==
  Constructed =>
    \A i \in 1..Len(segments) :
      ~IsClose(i) =>
        segments[i].point =
          Resolved(segments[i].key, segments[i].data, CurrentPointAt(i))

C7_Witness ==
  /\ Constructed
  /\ \E i \in 1..Len(segments) :
       /\ segments[i].key = "a"
       /\ CurrentPointAt(i)[1] # Zero /\ CurrentPointAt(i)[2] # Zero
       /\ segments[i].point # absolute(segments[i].data, 6)

\* the segments other than Z/z, by index, in order
Drawn == SelectSeq([i \in 1..Len(segments) |-> i], LAMBDA i : ~IsClose(i))

\* the p-th drawn segment starts a list: it is the first, a move, or follows a Z/z
StartsList(p) ==
  \/ p = 1
  \/ IsMove(Drawn[p])
  \/ Drawn[p] - Drawn[p - 1] > 1

RECURSIVE Flatten(_)
Flatten(lists) ==
  IF lists = <<>> THEN <<>> ELSE Head(lists) \o Flatten(Tail(lists))

\* the position in Flatten(lists) of the first point of the k-th list
StartOf(lists, k) == 1 + Len(Flatten(SubSeq(lists, 1, k - 1)))

\* C8: linearPoints has one list per subpath: no list is empty, the lists in
\* order hold the points of the segments other than Z/z in segment order,
\* and a list starts exactly at each M/m and after each Z/z.
\* "M0,0 L10,0 L10,10 Z" gives [[(0,0),(10,0),(10,10)]].
C8_LinearPoints ==
  linearRead # <<>> =>
    LET lp == linearRead[1]
    IN  /\ \A k \in 1..Len(lp) : lp[k] # <<>>
        /\ Flatten(lp) = [p \in 1..Len(Drawn) |-> segments[Drawn[p]].point]
        /\ {StartOf(lp, k) : k \in 1..Len(lp)}
             = {p \in 1..Len(Drawn) : StartsList(p)}
        /\ input = Example1 => lp = << <<Origin, <<Ten, Zero>>, <<Ten, Ten>> >> >>

C8_Witness ==
  /\ linearRead # <<>>
  /\ Len(linearRead[1]) >= 3
  /\ \E p \in 2..Len(Drawn) : ~IsMove(Drawn[p]) /\ Drawn[p] - Drawn[p - 1] > 1
  /\ \E p \in 2..Len(Drawn) : IsMove(Drawn[p]) /\ Drawn[p] - Drawn[p - 1] = 1

\* C9: every read of closed returns true iff some segment has key z or Z; a
\* later read of closed or of linearPoints returns what the first read
\* returned; and no step after construction changes the segment list.
C9_Reads ==
  /\ [](closedRead # <<>> =>
          closedRead[1] = (\E i \in 1..Len(segments) : IsClose(i)))
  /\ [][ /\ closedRead # <<>> => closedRead' = closedRead
         /\ linearRead # <<>> => linearRead' = linearRead
         /\ Constructed => segments' = segments ]_vars

C9_Witness ==
  /\ closedRead = <<TRUE>>
  /\ linearRead # <<>>
  /\ \A i \in 1..Len(segments) : segments[i].key # "z"

(***************************************************************************)
(* Properties of the arc converter.                                        *)
(***************************************************************************)
\* C10: for every construction, zero radii included, the calls of
\* getNextSegment return at most 4 segments and then null, and after a null
\* every later call returns null.
C10_AtMostFourSegments ==
  /\ Cardinality({i \in 1..Len(returned) : returned[i] = "segment"}) <= 4
  /\ \A i \in 1..Len(returned) : i > 4 => returned[i] = "null"
  /\ \A i, j \in 1..Len(returned) :
       (i < j /\ returned[i] = "null") => returned[j] = "null"

\* C11: a converter constructed with from equal to to returns null from its
\* first call of getNextSegment and from every later call, whatever the
\* radii, the angle and the flags.
C11_CoincidentEndpoints ==
  (arcPc = "ready" /\ arc.from = arc.to) =>
    \A i \in 1..Len(returned) : returned[i] = "null"

\* coincident endpoints away from the origin, a zero radius, a turned axis,
\* and several calls made
C11_Witness ==
  /\ arcPc = "ready"
  /\ arc.from = arc.to
  /\ arc.from # <<0, 0>>
  /\ arc.radii[1] = 0
  /\ arc.angle = 90
  /\ arc.sweepFlag
  /\ Len(returned) >= 3
  /\ returned[1] = "null"

(***************************************************************************)
(* Properties of the parser on malformed input.                            *)
(***************************************************************************)
\* C15: in every state of parsing the segment count never exceeds the token
\* count plus one (each segment is one command occurrence of the input,
\* apart from a leading synthetic M0,0), numbers after a Z/z included.
C15_SegmentsWithinTokens ==
  pc \in {"while", "constructed"} => Len(segments) <= Len(tokens) + 1

Example3 == <<"M","0",",","0"," ","L","5"," ","Z">>

\* the constructor has returned from 'Param not a number'
ParamNotNumber ==
  /\ Constructed
  /\ console # <<>>
  /\ console[Len(console)] = "Param not a number"

\* the tokens before the command whose slot holds the non-number: index has
\* passed the letter of a written command, not the numbers of a repeated one
Before ==
  IF token.type = NUMBER THEN Consumed ELSE SubSeq(tokens, 1, index - 1)

\* C16: when a parameter slot of a command holds a non-numeric token,
\* parsing stops at that command: the segment list is the list of the
\* segments completed before it, in order and unaltered, and these segments
\* have their points resolved.
C16_StopsAtBadParameter ==
  /\ ParamNotNumber =>
       /\ WellFormed(Before)
       /\ KeyData(segments) = Denoted(Before)
       /\ \A i \in 1..Len(segments) :
            ~IsClose(i) =>
              segments[i].point =
                Resolved(segments[i].key, segments[i].data, CurrentPointAt(i))
  /\ (Constructed /\ input = Example3) =>
       /\ ParamNotNumber
       /\ KeyData(segments) = <<[key |-> "M", data |-> <<Zero, Zero>>]>>
       /\ segments[1].point = Origin

\* two segments were completed before the bad slot, the second away from
\* the origin
C16_Witness ==
  /\ ParamNotNumber
  /\ Len(segments) >= 2
  /\ segments[2].point # NoPoint
  /\ segments[2].point # Origin
  /\ index < Len(tokens)

(***************************************************************************)
(* Properties of the pen.                                                  *)
(***************************************************************************)
Smallest(S) == CHOOSE j \in S : \A k \in S : j <= k

SetPositions(calls) == {i \in 1..Len(calls) : calls[i].op = "setPosition"}

FirstSets(calls) == {i \in 1..Len(calls) : calls[i].op = "first"}

\* the arguments of the latest setPosition, (0,0) when there is none
LatestPosition(calls) ==
  IF SetPositions(calls) = {} THEN <<0, 0>>
  ELSE calls[Largest(SetPositions(calls))].arg

\* first after the calls: what the last first-setter call wrote, or when it
\* wrote null (or there is none) the arguments of the earliest setPosition
\* made after it, null when there is none
AdoptedFirst(calls) ==
  LET k == IF FirstSets(calls) = {} THEN 0 ELSE Largest(FirstSets(calls))
      later == {i \in SetPositions(calls) : i > k}
  IN  IF k > 0 /\ calls[k].arg # null THEN calls[k].arg
      ELSE IF later = {} THEN null
      ELSE calls[Smallest(later)].arg

\* the setPosition calls made while first was null
MadeWhileNull(calls) ==
  {i \in SetPositions(calls) : AdoptedFirst(SubSeq(calls, 1, i - 1)) = null}

\* the arguments of the earliest setPosition made while first was null,
\* unless a later first-setter call overrode it, and then what the last
\* such call wrote
EarliestFirst(calls) ==
  LET e == IF MadeWhileNull(calls) = {} THEN 0
           ELSE Smallest(MadeWhileNull(calls))
      over == {i \in FirstSets(calls) : i > e}
  IN  IF over # {} THEN calls[Largest(over)].arg
      ELSE IF e = 0 THEN null
      ELSE calls[e].arg

\* C20 as stated: after any sequence of setPosition and first-setter calls
\* position is the arguments of the latest setPosition ((0,0) if none) and
\* first is the arguments of the earliest setPosition made while first was
\* null unless a later first-setter call overrode it.
C20_EarliestSetPosition ==
  Constructed =>
    /\ position = LatestPosition(penCalls)
    /\ first = EarliestFirst(penCalls)

\* C20: after any sequence of setPosition and first-setter calls position
\* is the arguments of the latest setPosition ((0,0) if none); first is what
\* the last first-setter call wrote, or, when that was null or there was no
\* such call, the arguments of the earliest setPosition made since (null if
\* none); and the calls leave segments, closed and linearPoints as they
\* were.
C20_PenState ==
  /\ [](Constructed =>
         /\ position = LatestPosition(penCalls)
         /\ first = AdoptedFirst(penCalls))
  /\ [][penCalls' # penCalls =>
          /\ segments' = segments
          /\ computeClosed(segments') = computeClosed(segments)
          /\ computeLinearPoints(segments') = computeLinearPoints(segments)
          /\ <<closedCache', linearCache'>> = <<closedCache, linearCache>>]_vars
  /\ [](closedRead # <<>> => closedRead = <<computeClosed(segments)>>)
  /\ [](linearRead # <<>> => linearRead = <<computeLinearPoints(segments)>>)

\* first was adopted, reset to null and adopted again from another call,
\* on a path with segments whose point lists were read before the calls
C20_Witness ==
  /\ Constructed
  /\ Len(penCalls) = 3
  /\ penCalls[1].op = "setPosition"
  /\ penCalls[2] = [op |-> "first", arg |-> null]
  /\ penCalls[3].op = "setPosition"
  /\ penCalls[3].arg # penCalls[1].arg
  /\ first = penCalls[3].arg
  /\ Len(segments) >= 2
  /\ linearRead # <<>>

(***************************************************************************)
(* Properties of the path fitter.                                          *)
(***************************************************************************)
Fitted == fitPc = "fitted"

Max(a, b) == IF a < b THEN b ELSE a

\* t = floor(ratio * n) for ratio = quarters / 4: the integer with
\* t <= ratio * n < t + 1
Target(quarters, n) ==
  CHOOSE t \in 0..(quarters * n) : 4 * t <= quarters * n /\ quarters * n < 4 * (t + 1)

\* the subpaths kept, by index, in input order
Retained ==
  SelectSeq([i \in 1..Len(sets) |-> i],
            LAMBDA i : ~(Target(simplification, Len(sets[i])) < 5 /\ Len(sets[i]) <= 5))

\* C12: fit(ratio) drops a subpath of length n with t = floor(ratio * n) when
\* t < 5 and n <= 5, and otherwise retains it with exactly min(n, max(t, 5))
\* points.
C12_RetainedCounts ==
  Fitted =>
    /\ Len(outSets) = Len(Retained)
    /\ \A j \in 1..Len(Retained) :
         LET n == Len(sets[Retained[j]])
         IN  Len(outSets[j]) = Min(n, Max(Target(simplification, n), 5))

\* a subpath dropped and the next one reduced to a target above 5
C12_Witness ==
  /\ Fitted
  /\ Len(sets) = 2
  /\ Len(sets[1]) \in 1..5
  /\ Len(sets[2]) > 6
  /\ Len(outSets) = 1
  /\ Len(outSets[1]) = 6

\* the tokens of one retained subpath
RECURSIVE PointTokens(_, _)
PointTokens(set, i) ==
  IF i > Len(set) THEN <<>>
  ELSE <<CommandToken(IF i = 1 THEN "M" ELSE "L"),
         NumberToken(Num(set[i][1])), NumberToken(Num(set[i][2]))>>
         \o PointTokens(set, i + 1)

RECURSIVE SubpathTokens(_, _)
SubpathTokens(out, isClosed) ==
  IF out = <<>> THEN <<>>
  ELSE PointTokens(Head(out), 1)
         \o (IF isClosed THEN <<CommandToken("z")>> ELSE <<>>)
         \o SubpathTokens(Tail(out), isClosed)

Occurrences(c, str) == Cardinality({i \in 1..Len(str) : str[i] = c})

OutputChars == Digits \cup {"M", "L", "z", " ", ",", "-"}

\* C14: the string fit returns is, for each retained subpath in input
\* order, 'M' + x + ',' + y for its first point and 'L' + x + ',' + y for
\* each later point, followed by 'z ' iff the fitter was constructed with
\* closed = true: it reads as these commands and numbers and no others, has
\* one M per retained subpath, one comma per point, no space but the one
\* after each z, and no z when closed = false.
C14_OutputString ==
  Fitted =>
    /\ pc \in {"while", "constructed"} =>
         tokens = Append(SubpathTokens(outSets, fitterClosed), EndToken)
    /\ \A i \in 1..Len(fitted) : fitted[i] \in OutputChars
    /\ Occurrences("M", fitted) = Len(outSets)
    /\ Occurrences(",", fitted) = Len(Flatten(outSets))
    /\ Occurrences("z", fitted) = IF fitterClosed THEN Len(outSets) ELSE 0
    /\ Occurrences(" ", fitted) = Occurrences("z", fitted)
    /\ \A i \in 1..Len(fitted) :
         fitted[i] = "z" => i < Len(fitted) /\ fitted[i + 1] = " "
    /\ \A j \in 1..Len(outSets) : outSets[j] # <<>>
    /\ (sets = <<Curve("line", 6)>> /\ simplification = 0 /\ fitterClosed) =>
         fitted = <<"M","1",",","0","L","3",",","0","L","4",",","0",
                    "L","5",",","0","L","6",",","0","z"," ">>

\* two retained subpaths of an open fitter, with a negative and a two-digit
\* coordinate
C14_Witness ==
  /\ Fitted
  /\ ~fitterClosed
  /\ Len(outSets) = 2
  /\ Len(outSets[1]) < Len(sets[1])
  /\ \E i \in 1..Len(fitted) - 2 :
       fitted[i] = "-" /\ fitted[i + 1] = "1" /\ fitted[i + 2] = "0"

\* a point with the coordinates as the parser gives them
Parsed(p) == <<Num(p[1]), Num(p[2])>>

ParsedSets(out) == [j \in 1..Len(out) |-> [i \in 1..Len(out[j]) |-> Parsed(out[j][i])]]

\* C19: for point lists with integer coordinates, parsing the string fit
\* returned with RoughPath gives linearPoints equal to the list of the
\* retained (reduced) subpaths in order and closed equal to (fitter.closed
\* and at least one subpath retained); fit does not modify the sets given
\* to the fitter.
C19_RoundTrip ==
  /\ []((Fitted /\ pc # "new") =>
         /\ pc # "threw"
         /\ console = <<>>
         /\ (pc = "while" /\ Len(segments) = MaxSegs) => token.type = END_OF_D
         /\ Constructed =>
              /\ computeLinearPoints(segments) = ParsedSets(outSets)
              /\ computeClosed(segments) = (fitterClosed /\ outSets # <<>>)
              /\ linearRead # <<>> => linearRead = <<ParsedSets(outSets)>>
              /\ closedRead # <<>> =>
                   closedRead = <<fitterClosed /\ outSets # <<>>>>)
  /\ [][fitPc' = "fitted" => sets' = sets]_vars

\* both reads made after parsing the string of a closed fitter that kept
\* two subpaths, one of them reduced
C19_Witness ==
  /\ Fitted
  /\ Constructed
  /\ fitterClosed
  /\ Len(outSets) = 2
  /\ Len(outSets[1]) < Len(sets[1])
  /\ outSets[2][1][1] < 0
  /\ linearRead # <<>>
  /\ closedRead = <<TRUE>>

(***************************************************************************)
(* Properties of reduce.                                                   *)
(***************************************************************************)
Returned == reducePc = "returned"

\* sub is full with some of its elements left out
RECURSIVE IsSubsequence(_, _)
IsSubsequence(sub, full) ==
  IF sub = <<>> THEN TRUE
  ELSE IF full = <<>> THEN FALSE
  ELSE IF Head(sub) = Head(full) THEN IsSubsequence(Tail(sub), Tail(full))
  ELSE IsSubsequence(sub, Tail(full))

\* C13: for every point list and target count the list reduce returns is an
\* order-preserving subsequence of the input with the input's first and
\* last points, and it is never longer than the input.
C13_Subsequence ==
  Returned =>
    /\ IsSubsequence(reducePoints, reduceSet)
    /\ Len(reducePoints) <= Len(reduceSet)
    /\ reduceSet # <<>> =>
         /\ reducePoints # <<>>
         /\ reducePoints[1] = reduceSet[1]
         /\ reducePoints[Len(reducePoints)] = reduceSet[Len(reduceSet)]

\* two points were removed from a list whose ends differ from each other
\* and from the interior points
C13_Witness ==
  /\ Returned
  /\ Len(reduceSet) = 4
  /\ Len(reducePoints) = 2
  /\ reduceSet[1] # reduceSet[4]
  /\ reduceSet[2] \notin {reduceSet[1], reduceSet[4]}
  /\ reduceSet[3] \notin {reduceSet[1], reduceSet[4]}

\* 16 * area^2 of the triangle of the interior point with the source's
\* index i and its two neighbours
Area16(points, i) ==
  LET t == sides(points, i) IN heron16(t[1], t[2], t[3])

\* C17: each iteration of reduce removes exactly one point, the interior
\* point whose triangle with its predecessor and successor has the smallest
\* area (the lowest index among equal minima); a point whose area is
\* strictly larger than another interior point's is never the one removed.
C17_SmallestAreaRemoved ==
  \A k \in 1..Len(removals) :
    LET p == removals[k].points
        m == removals[k].minIndex
    IN  /\ m \in Interior(p)
        /\ \A i \in Interior(p) :
             /\ Area16(p, m) <= Area16(p, i)
             /\ Area16(p, i) = Area16(p, m) => m <= i

\* C18: reduce(set, count) terminates for every point list and count
\* (count < 2 included) after at most max(0, length - count) removals:
\* every iteration of its loop returns or removes a point, and the removals
\* stay within the bound; it returns exactly count points when
\* 2 <= count < length, and when count < 2 <= length it stops with just the
\* two endpoints.
C18_Terminates ==
  [][/\ reducePc = "while" =>
          \/ Returned'
          \/ /\ Len(reducePoints') < Len(reducePoints)
             /\ Len(removals') = Len(removals) + 1
     /\ Len(removals') <= Max(0, Len(reduceSet') - reduceCount')
     /\ Returned' =>
          /\ (2 <= reduceCount' /\ reduceCount' < Len(reduceSet')) =>
               Len(reducePoints') = reduceCount'
          /\ (reduceCount' < 2 /\ 2 <= Len(reduceSet')) =>
               reducePoints' =
                 <<reduceSet'[1], reduceSet'[Len(reduceSet')]>>]_vars

\* a call with a count below 2 that stopped at the two endpoints after
\* removing every interior point
C18_Witness ==
  /\ Returned
  /\ reduceCount < 2
  /\ Len(reduceSet) = 4
  /\ Len(removals) = 2
  /\ Len(reducePoints) = 2

====
